---- MODULE Spec2Model ----
(***************************************************************************)
(* Token lifecycle of the Rah-e Ayandeh API: utils/auth.js (access and     *)
(* refresh tokens, the Redis revocation store) and routes/auth.js          *)
(* (register, login, refresh-token, logout, profile, change-password),     *)
(* with the guards authenticateToken and authorizeRoles and the password   *)
(* hook of models/User.js.                                                 *)
(*                                                                         *)
(* Time is counted in seconds, the resolution of the iat/exp claims that   *)
(* jsonwebtoken writes; the lifetimes are scaled down to a few seconds.    *)
(* The catalogue side is modelled with it: the synchronisation with the   *)
(* data provider (services), the response cache (utils/cache.js), the      *)
(* routers of routes/job.js and routes/university.js, the error handler    *)
(* (utils/errorHandler.js) and the start-up of server.js.                  *)
(*                                                                         *)
(* A handler is a sequence of steps, one per await of a store call whose   *)
(* order against other requests matters; the code between two awaits runs  *)
(* without interruption (single-threaded event loop).  All Redis commands  *)
(* go through one client connection, so the store executes them in the     *)
(* order the handlers send them.                                           *)
(***************************************************************************)
EXTENDS Integers, FiniteSets, Sequences, TLC

\* ---------------------------------------------------------------- bounds
MaxTime == 2

Users == {"u1", "u2"}
Passwords == {"p1", "p2"}
\* the passwords are interchangeable: every account starts with the first
RegPasswords == {"p1"}
Reqs == {1, 2}

\* lifetimes, in clock units of the model
StoreTTL == 2
AccessLife == 1
RefreshLives == {1, 2}

None == "none"

\* the role enum of the user schema, and the e-mail addresses in use
Roles == {"user", "admin"}
Emails == {"e1", "e2"}

\* a token is a record of its claims (a claim the payload does not carry is
\* None), its issue and expiry seconds and the secret it was signed with;
\* typ stands for the type claim: "refresh" where the payload carries
\* type: 'refresh', "access" where it carries none.  NoTok is the absent
\* token (undefined, null) and Garbage a string that is not a JWT
NoTok == [id |-> None, username |-> None, email |-> None, role |-> None,
          typ |-> "none", iat |-> 0, exp |-> 0, sec |-> None]
Garbage == [id |-> None, username |-> None, email |-> None, role |-> None,
            typ |-> "garbage", iat |-> 0, exp |-> 0, sec |-> None]

\* a user document: the password as stored, the e-mail address and the role
NoUser == [reg |-> FALSE, password |-> <<>>, email |-> None, role |-> None]
NoEntry == [tok |-> NoTok, expAt |-> 0]

AccessSecret == "jwt_secret"
RefreshSecret == "jwt_refresh_secret"
WrongSecret == "wrong_secret"

VARIABLES
  now,        \* wall clock, seconds
  cfg,        \* process.env: refreshLife (JWT_REFRESH_EXPIRES_IN), refreshSecret,
              \* nodeEnv (NODE_ENV), apiKey (API_KEY, None when unset)
  users,      \* Credential Store: user id -> record or NoUser
  store,      \* Revocation Store: user id -> [tok, expAt] or NoEntry
  reqs,       \* requests in flight, one per slot
  issuedA,    \* access tokens handed to clients, not yet expired
  issuedR,    \* refresh tokens handed to clients, not yet expired; stale
              \* (history) marks those handed out before a completed
              \* change-password of their user
  expired,    \* an expired access token that a client still holds
  last,       \* the last response sent by the auth router
  catalog,    \* the University and Job collections: kind -> set of documents
  cache,      \* the response cache: key -> cached body or NoBody
  boot,       \* start-up of server.js: where it stands, whether cron is scheduled
  res         \* the last response sent by the catalogue routes and /api/sync

\* the state of the catalogue side
appVars == <<catalog, cache, boot, res>>

vars == <<now, cfg, users, store, reqs, issuedA, issuedR, expired, last, appVars>>

\* ------------------------------------------------------------ jsonwebtoken
\* jwt.sign(payload, secret, {expiresIn}): iat is the current second.
JwtSign(payload, secret, life, t) ==
  [id |-> payload.id, username |-> payload.username, email |-> payload.email,
   role |-> payload.role, typ |-> payload.typ,
   iat |-> t, exp |-> t + life, sec |-> secret]

\* the payload jwt.verify returns: the claims with iat and exp
Payload(tok) ==
  [id |-> tok.id, username |-> tok.username, email |-> tok.email, role |-> tok.role,
   typ |-> tok.typ, iat |-> tok.iat, exp |-> tok.exp]

\* req.user of a request to which no identity was attached
NoClaims == Payload(NoTok)

\* jwt.verify with the expiry test left out
JwtVerify_IgnoreExpiry(tok, secret, t) ==
  /\ tok # Garbage
  /\ tok # NoTok
  /\ tok.sec = secret

\* jwt.verify(token, secret): TRUE when it returns the payload, FALSE when
\* it throws (malformed, bad signature, or clockTimestamp >= exp).
JwtVerify(tok, secret, t) ==
  /\ tok # Garbage
  /\ tok # NoTok
  /\ tok.sec = secret
  /\ t < tok.exp

\* ------------------------------------------------------------------ bcrypt
\* a password is a sequence: <<p>> is the plaintext p, and hashing puts the
\* mark of the hash in front (the salt plays no part in the comparison)
Plain(p) == <<p>>
Hash(s) == <<"bcrypt">> \o s
ComparePassword(candidate, stored) == stored = Hash(Plain(candidate))

\* a pre('save') hook without the isModified test
PreSave_Always(doc, modified) == [doc EXCEPT !.password = Hash(doc.password)]

\* the pre('save') hook: the password is hashed when the save modifies it
PreSave(doc, modified) ==
  IF "password" \in modified THEN [doc EXCEPT !.password = Hash(doc.password)] ELSE doc

\* ------------------------------------------------------------ utils/auth.js
\* the username of a user; _id is written into a payload, and into a store
\* key, as its hexadecimal string, which is how the model names a user
UsernameOf(u) == IF u = "u1" THEN "alice" ELSE "bob"

\* the e-mail address a user registers with
EmailOf(u) == IF u = "u1" THEN "e1" ELSE "e2"

\* the user document a handler holds after findOne / findById / new User
UserDoc(u) ==
  [id |-> u, username |-> UsernameOf(u), email |-> users[u].email, role |-> users[u].role]

\* generateAccessToken with a payload that leaves the role out
GenerateAccessToken_NoRole(user, t) ==
  JwtSign([id |-> user.id, username |-> user.username, email |-> user.email,
           role |-> None, typ |-> "access"],
          AccessSecret, AccessLife, t)

GenerateAccessToken(user, t) ==
  JwtSign([id |-> user.id, username |-> user.username, email |-> user.email,
           role |-> user.role, typ |-> "access"],
          AccessSecret, AccessLife, t)

SignRefreshToken(u, c, t) ==
  JwtSign([id |-> u, username |-> None, email |-> None, role |-> None, typ |-> "refresh"],
          c.refreshSecret, c.refreshLife, t)

RedisGet(s, u) == s[u].tok
RedisSet(s, u, tok, t) == [s EXCEPT ![u] = [tok |-> tok, expAt |-> t + StoreTTL]]
RedisDel(s, u) == [s EXCEPT ![u] = NoEntry]

\* keys whose time-to-live has run out are gone
RedisExpire(s, t) ==
  [u \in Users |-> IF s[u] # NoEntry /\ s[u].expAt <= t THEN NoEntry ELSE s[u]]

\* verifyAccessToken that also wants a store entry for the user
VerifyAccessToken_CheckStore(tok, t) ==
  IF JwtVerify(tok, AccessSecret, t) /\ store[tok.id].tok # NoTok
    THEN [ok |-> TRUE, status |-> 200, id |-> tok.id, user |-> Payload(tok)]
    ELSE [ok |-> FALSE, status |-> 401, id |-> None, user |-> NoClaims]

VerifyAccessToken(tok, t) ==
  IF JwtVerify(tok, AccessSecret, t)
    THEN [ok |-> TRUE, status |-> 200, id |-> tok.id, user |-> Payload(tok)]
    ELSE [ok |-> FALSE, status |-> 401, id |-> None, user |-> NoClaims]

\* verifyRefreshToken without the comparison storedToken !== token
VerifyRefreshToken_AnyStored(tok, s, up, c, t) ==
  IF ~JwtVerify(tok, c.refreshSecret, t)
    THEN [ok |-> FALSE, status |-> 401, id |-> None, rd |-> FALSE]
  ELSE IF ~up
    THEN [ok |-> FALSE, status |-> 401, id |-> None, rd |-> TRUE]
  ELSE IF RedisGet(s, tok.id) = NoTok
    THEN [ok |-> FALSE, status |-> 401, id |-> None, rd |-> TRUE]
  ELSE [ok |-> TRUE, status |-> 200, id |-> tok.id, rd |-> TRUE]

\* verifyRefreshToken that stops after jwt.verify
VerifyRefreshToken_SignatureOnly(tok, s, up, c, t) ==
  IF ~JwtVerify(tok, c.refreshSecret, t)
    THEN [ok |-> FALSE, status |-> 401, id |-> None, rd |-> FALSE]
    ELSE [ok |-> TRUE, status |-> 200, id |-> tok.id, rd |-> FALSE]

\* verifyRefreshToken that reads the store before it verifies the token
VerifyRefreshToken_StoreFirst(tok, s, up, c, t) ==
  IF ~up \/ ~JwtVerify(tok, c.refreshSecret, t)
    THEN [ok |-> FALSE, status |-> 401, id |-> None, rd |-> TRUE]
  ELSE IF RedisGet(s, tok.id) = NoTok \/ RedisGet(s, tok.id) # tok
    THEN [ok |-> FALSE, status |-> 401, id |-> None, rd |-> TRUE]
  ELSE [ok |-> TRUE, status |-> 200, id |-> tok.id, rd |-> TRUE]

\* verifyRefreshToken: every throw inside the try block, the failure of the
\* Redis call included (up = FALSE), is rethrown as UnauthorizedError by
\* the catch.  rd tells whether the store was read.
VerifyRefreshToken(tok, s, up, c, t) ==
  IF ~JwtVerify(tok, c.refreshSecret, t)
    THEN [ok |-> FALSE, status |-> 401, id |-> None, rd |-> FALSE]
  ELSE IF ~up
    THEN [ok |-> FALSE, status |-> 401, id |-> None, rd |-> TRUE]
  ELSE IF RedisGet(s, tok.id) = NoTok \/ RedisGet(s, tok.id) # tok
    THEN [ok |-> FALSE, status |-> 401, id |-> None, rd |-> TRUE]
  ELSE [ok |-> TRUE, status |-> 200, id |-> tok.id, rd |-> TRUE]

\* invalidateRefreshToken that deletes nothing
InvalidateRefreshToken_Noop(s, u) == s

InvalidateRefreshToken(s, u) == RedisDel(s, u)

\* ---------------------------------------------------- catalogue: data
Kinds == {"university", "job"}
Modes == {"production", "development"}

\* an externalId: the id the provider sent, or `rapid-${Date.now()}`
NoId == [src |-> None, key |-> None, t |-> 0]
ProviderId(k) == [src |-> "provider", key |-> k, t |-> 0]
GeneratedId(t) == [src |-> "rapid", key |-> None, t |-> t]

\* a document of a collection: its externalId and v, the rest of its fields
NoItem == [externalId |-> NoId, v |-> 0]

\* what the provider sends for one record: an id (None when it sends none)
\* and the other fields
RawItems == {[id |-> "x1", v |-> 1], [id |-> "x1", v |-> 2], [id |-> None, v |-> 1]}

\* a provider response: ok is FALSE when the request throws or the answer
\* carries no list
NoResponse == [ok |-> FALSE, items |-> <<>>]
MaxFeed == 1
Responses(items) ==
  {NoResponse} \cup
  {[ok |-> TRUE, items |-> f] : f \in UNION {[1..n -> items] : n \in 0..MaxFeed}}

\* the university provider fails or sends one record
UniResponses == {NoResponse, [ok |-> TRUE, items |-> <<[id |-> "x1", v |-> 1]>>]}

\* _transformJobData, _transformUniversityData at time t
TransformJobData(data, t) ==
  [externalId |-> IF data.id # None THEN ProviderId(data.id) ELSE GeneratedId(t),
   v |-> data.v]
TransformUniversityData(data, t) ==
  [externalId |-> IF data.id # None THEN ProviderId(data.id) ELSE GeneratedId(t),
   v |-> data.v]

\* fetchFromRapidApi of either service: [] when the request fails
JobFetchFromRapidApi(response, t) ==
  IF ~response.ok THEN <<>>
  ELSE [i \in 1..Len(response.items) |-> TransformJobData(response.items[i], t)]
UniversityFetchFromRapidApi(response, t) ==
  IF ~response.ok THEN <<>>
  ELSE [i \in 1..Len(response.items) |-> TransformUniversityData(response.items[i], t)]

\* the loop of syncJobData and syncUniversityData from item i on: findOne by
\* externalId, Object.assign or new document (savedCount++), save
RECURSIVE UpsertFrom(_, _, _, _)
UpsertFrom(coll, allData, i, savedCount) ==
  IF i > Len(allData) THEN [coll |-> coll, savedCount |-> savedCount]
  ELSE LET found == {d \in coll : d.externalId = allData[i].externalId}
       IN IF found # {}
            THEN UpsertFrom((coll \ found) \cup {allData[i]}, allData, i + 1, savedCount)
            ELSE UpsertFrom(coll \cup {allData[i]}, allData, i + 1, savedCount + 1)

\* the result of one service: success, count and the number of new records
NoCount == [success |-> FALSE, count |-> 0, added |-> 0]

\* the body shared by the two services; dbUp is FALSE when the database
\* rejects the first call, which the catch turns into InternalServerError
SyncData(coll, allData, dbUp) ==
  IF Len(allData) = 0
    THEN [coll |-> coll, thrown |-> FALSE, result |-> NoCount]
  ELSE IF ~dbUp
    THEN [coll |-> coll, thrown |-> TRUE, result |-> NoCount]
  ELSE LET r == UpsertFrom(coll, allData, 1, 0)
       IN [coll |-> r.coll, thrown |-> FALSE,
           result |-> [success |-> TRUE, count |-> Len(allData), added |-> r.savedCount]]

SyncJobData(coll, response, dbUp, t) ==
  SyncData(coll, JobFetchFromRapidApi(response, t), dbUp)
SyncUniversityData(coll, response, dbUp, t) ==
  SyncData(coll, UniversityFetchFromRapidApi(response, t), dbUp)

\* ---------------------------------------------------- catalogue: cache
\* a string is the sequence of its parts: the URL /api/v1/job/types is
\* << "/", "api", "/", "v1", "/", "job", "/", "types" >>
Route(name) == <<"/", name>>
Root == <<"/">>
IdRoute == <<"/", ":id">>
NoRoute == <<>>

\* req.originalUrl of a request to the router of kind
OriginalUrl(kind, path) == <<"/", "api", "/", "v1", "/", kind>> \o path

\* the paths requested, per router
GetPaths(kind) ==
  IF kind = "job" THEN {Route("x1"), Route("types")} ELSE {Route("fields")}

CacheKeys == UNION {{OriginalUrl(k, p) : p \in GetPaths(k)} : k \in Kinds}

\* a response body (the JSON): the document of a single-record answer, the
\* count of a list answer, the fields of an error answer
NoBody == [data |-> NoItem, count |-> -1, error |-> None, error_en |-> None,
           message |-> None, message_en |-> None, stack |-> None]

\* KEYS pattern, for a pattern that is a prefix followed by *
Matches(prefix, key) ==
  Len(key) >= Len(prefix) /\ SubSeq(key, 1, Len(prefix)) = prefix

\* getCache, setCache, clearCachePattern; up is redisClient.connected
GetCache(c, key, up) == IF ~up THEN NoBody ELSE c[key]
SetCache(c, key, data, up) == IF ~up THEN c ELSE [c EXCEPT ![key] = data]
ClearCachePattern(c, prefix, up) ==
  IF ~up THEN c ELSE [k \in DOMAIN c |-> IF Matches(prefix, k) THEN NoBody ELSE c[k]]

\* ------------------------------------------------ catalogue: syncService
NoResult == [invoked |-> FALSE, success |-> FALSE, university |-> NoCount, job |-> NoCount]

\* syncAllData: university, then job, then the cache patterns; an error of
\* either service ends it with InternalServerError
SyncAllData(cat, c, uni, job, dbUp, up, t) ==
  LET u == SyncUniversityData(cat["university"], uni, dbUp, t)
      j == SyncJobData(cat["job"], job, dbUp, t)
  IN IF u.thrown
       THEN [catalog |-> cat, cache |-> c, thrown |-> TRUE,
             result |-> [NoResult EXCEPT !.invoked = TRUE]]
     ELSE IF j.thrown
       THEN [catalog |-> [cat EXCEPT !["university"] = u.coll], cache |-> c,
             thrown |-> TRUE, result |-> [NoResult EXCEPT !.invoked = TRUE]]
     ELSE [catalog |-> [cat EXCEPT !["university"] = u.coll, !["job"] = j.coll],
           cache |-> ClearCachePattern(ClearCachePattern(c, <<"university", ":">>, up),
                                      <<"job", ":">>, up),
           thrown |-> FALSE,
           result |-> [invoked |-> TRUE, success |-> u.result.success /\ j.result.success,
                       university |-> u.result, job |-> j.result]]

\* ------------------------------------------------ catalogue: errors
\* an error object: statusCode and code are 0 where the object has none
RawMessage == "message of the driver"
StackTrace == "stack trace"

AppError(message, statusCode, errorEn) ==
  [name |-> "Error", statusCode |-> statusCode, code |-> 0, message |-> message,
   errorEn |-> IF errorEn = None THEN message ELSE errorEn, stack |-> StackTrace]
NotFoundError(message, errorEn) == AppError(message, 404, errorEn)
InternalServerError(message, errorEn) == AppError(message, 500, errorEn)

\* the error of the 404 handler of server.js
RouteNotFound ==
  [name |-> "Error", statusCode |-> 404, code |-> 0, message |-> "route not found (fa)",
   errorEn |-> "Route not found", stack |-> StackTrace]

\* errors thrown by mongoose and the driver
LibraryError(name, code) ==
  [name |-> name, statusCode |-> 0, code |-> code, message |-> RawMessage,
   errorEn |-> None, stack |-> StackTrace]
CastError == LibraryError("CastError", 0)
MongoNetworkError == LibraryError("MongoNetworkError", 0)

\* errorHandlerMiddleware: the status and the body it sends
ErrorHandler(err, mode) ==
  LET statusCode == IF err.statusCode # 0 THEN err.statusCode ELSE 500
      r0 == [NoBody EXCEPT
               !.error = IF err.message # None THEN err.message ELSE "error on the server (fa)",
               !.error_en = IF err.errorEn # None THEN err.errorEn
                            ELSE "An error occurred on the server"]
      r1 == IF mode = "development"
              THEN [r0 EXCEPT !.message = err.message, !.message_en = err.message,
                              !.stack = err.stack]
              ELSE [r0 EXCEPT
                      !.message = IF statusCode = 500 THEN "contact support (fa)"
                                  ELSE err.message,
                      !.message_en = IF statusCode = 500 THEN "Please contact support"
                                     ELSE IF err.errorEn # None THEN err.errorEn
                                     ELSE err.message]
      validation == err.name = "ValidationError"
      r2 == IF validation
              THEN [r1 EXCEPT !.error = "invalid input (fa)", !.error_en = "Invalid input data"]
              ELSE r1
      duplicate == err.code = 11000
      r3 == IF duplicate
              THEN [r2 EXCEPT !.error = "field exists (fa)", !.error_en = "field already exists"]
              ELSE r2
      jwt == err.name = "JsonWebTokenError"
      r4 == IF jwt
              THEN [r3 EXCEPT !.error = "invalid token (fa)", !.error_en = "Invalid token",
                              !.message = "login again (fa)", !.message_en = "Please login again"]
              ELSE r3
      expiredToken == err.name = "TokenExpiredError"
      r5 == IF expiredToken
              THEN [r4 EXCEPT !.error = "token expired (fa)", !.error_en = "Token expired",
                              !.message = "login again (fa)", !.message_en = "Please login again"]
              ELSE r4
  IN [status |-> IF expiredToken \/ jwt THEN 401
                 ELSE IF duplicate THEN 409
                 ELSE IF validation THEN 422
                 ELSE statusCode,
      body |-> r5]

\* ------------------------------------------------ catalogue: routers
\* the GET routes of routes/job.js and routes/university.js in the order of
\* their registration
JobRoutes ==
  <<Root, Route("search"), IdRoute, Route("types"), Route("locations"),
    Route("companies"), Route("apply")>>
UniversityRoutes ==
  <<Root, Route("search"), IdRoute, Route("fields"), Route("locations"), Route("apply")>>
Routes(kind) == IF kind = "job" THEN JobRoutes ELSE UniversityRoutes

\* path-to-regexp: '/:id' matches every path of one segment
Match(pattern, path) ==
  IF pattern = IdRoute THEN Len(path) = 2 /\ path[1] = "/" ELSE pattern = path

\* the router hands the request to the first route that matches
Dispatch(routes, path) ==
  LET hits == {i \in 1..Len(routes) : Match(routes[i], path)}
  IN IF hits = {} THEN NoRoute
     ELSE routes[CHOOSE i \in hits : \A j \in hits : i <= j]

\* the routes registered with cacheMiddleware
Cached(route) == route \notin {NoRoute, Route("apply")}

\* what the handler of a route answers: db is "down" when the query is
\* rejected, "cast" when the cast of a value that is no ObjectId to _id
\* fails, "ok" otherwise
Handle(route, coll, path, db, mode) ==
  IF route = NoRoute THEN ErrorHandler(RouteNotFound, mode)
  ELSE IF route = Route("apply") THEN [status |-> 200, body |-> [NoBody EXCEPT !.count = 0]]
  ELSE IF db = "down" THEN ErrorHandler(MongoNetworkError, mode)
  ELSE IF route = IdRoute
    THEN IF db = "cast" THEN ErrorHandler(CastError, mode)
         ELSE LET found == {d \in coll : d.externalId = ProviderId(path[2])}
              IN IF found = {}
                   THEN ErrorHandler(NotFoundError("not found (fa)", "not found"), mode)
                   ELSE [status |-> 200,
                         body |-> [NoBody EXCEPT !.data = CHOOSE d \in found : TRUE]]
  ELSE [status |-> 200, body |-> [NoBody EXCEPT !.count = Cardinality(coll)]]

\* ------------------------------------------------------------------- state
\* auth and prev are history: how the password a login was checked against
\* stands now ("current", "replaced" by a save, "changed" by a completed
\* change-password), and the token of an overlapping login that wrote first
Idle == [kind |-> "idle", pc |-> "idle", u |-> None, pw |-> None, email |-> None,
         auth |-> "current", prev |-> NoTok]

Resp(op, status) == [op |-> op, status |-> status]

\* a response of the catalogue side: the route that handled it, status and
\* body, whether the body came from the cache, and for /api/sync the
\* x-api-key header of the request and the result
NoRes == [op |-> "none", kind |-> None, path |-> NoRoute, handler |-> NoRoute,
          key |-> None, status |-> 0, fromCache |-> FALSE, body |-> NoBody,
          result |-> NoResult]

\* the server after its start-up, with empty collections and an empty cache
AppStarted ==
  /\ catalog = [k \in Kinds |-> {}]
  /\ cache = [k \in CacheKeys |-> NoBody]
  /\ boot = [pc |-> "up", scheduled |-> TRUE]
  /\ res = NoRes

\* the state of the auth side, the clock apart
authVars == <<cfg, users, store, reqs, issuedA, issuedR, expired, last>>

Init ==
  /\ now = 0
  /\ cfg \in [refreshLife : RefreshLives, refreshSecret : {RefreshSecret},
            nodeEnv : {"production"}, apiKey : {"k1"}]
  /\ users = [u \in Users |-> NoUser]
  /\ store = [u \in Users |-> NoEntry]
  /\ reqs = [r \in Reqs |-> Idle]
  /\ issuedA = {}
  /\ issuedR = {}
  /\ expired = NoTok
  /\ last = Resp("none", 0)
  /\ AppStarted

\* what a client can put into a request: the tokens it was handed that have
\* not expired, the refresh tokens the store holds (expired ones among
\* them), one expired access token, a token it signed itself with a secret
\* of its own, and a string that is no JWT
Forged == [id |-> "u1", username |-> None, email |-> None, role |-> None,
           typ |-> "refresh", iat |-> 0, exp |-> MaxTime + 2, sec |-> WrongSecret]

Presentable ==
  (issuedA \cup {e.tok : e \in issuedR} \cup {store[u].tok : u \in Users}
     \cup {expired, Forged, Garbage}) \ {NoTok}

\* what a client sends as the bearer credential of a protected route
Bearers == (issuedA \cup {expired, Forged, Garbage}) \ {NoTok}

InFlight(kind, u) == \E r \in Reqs : reqs[r].kind = kind /\ reqs[r].u = u

\* a new request takes the first free slot
FreeSlot(r) == reqs[r] = Idle /\ \A q \in Reqs : q < r => reqs[q] # Idle

Finish(r, resp) ==
  /\ reqs' = [reqs EXCEPT ![r] = Idle]
  /\ last' = resp

\* -------------------------------------------------- POST /auth/register
\* the record that holds this username or this e-mail address
Existing(username, email) ==
  {o \in Users : users[o].reg /\ (UsernameOf(o) = username \/ users[o].email = email)}

\* User.findOne({$or: [{username}, {email}]}): a record found ends the request
RegisterFindEmail(r, u, pw, email) ==
  /\ FreeSlot(r)
  /\ IF Existing(UsernameOf(u), email) # {}
       THEN Finish(r, Resp("register", 400))
       ELSE /\ reqs' = [reqs EXCEPT ![r] =
                          [Idle EXCEPT !.kind = "register", !.pc = "save", !.u = u,
                                       !.pw = pw, !.email = email]]
            /\ UNCHANGED last
  /\ UNCHANGED <<appVars, now, cfg, users, store, issuedA, issuedR, expired>>

\* a registration with the e-mail address that belongs to the username
RegisterFind(r, u, pw) == RegisterFindEmail(r, u, pw, EmailOf(u))

\* a registration whose save finds no unique index in its way
RegisterSave_NoIndex(r) ==
  /\ reqs[r].kind = "register" /\ reqs[r].pc = "save"
  /\ users' = [users EXCEPT ![reqs[r].u] =
                  PreSave([reg |-> TRUE, password |-> Plain(reqs[r].pw),
                           email |-> reqs[r].email, role |-> "user"],
                          {"username", "email", "password"})]
  /\ reqs' = [reqs EXCEPT ![r].pc = "issue", ![r].pw = None]
  /\ UNCHANGED <<appVars, now, cfg, store, issuedA, issuedR, expired, last>>

\* user.save(): the pre('save') hook hashes the password; the unique indexes
\* on username and email reject a second record with either (duplicate key
\* error 11000, answered with 409)
RegisterSave(r) ==
  /\ reqs[r].kind = "register" /\ reqs[r].pc = "save"
  /\ IF Existing(UsernameOf(reqs[r].u), reqs[r].email) # {}
       THEN /\ Finish(r, Resp("register", 409))
            /\ UNCHANGED users
       ELSE /\ users' = [users EXCEPT ![reqs[r].u] =
                           PreSave([reg |-> TRUE, password |-> Plain(reqs[r].pw),
                                    email |-> reqs[r].email, role |-> "user"],
                                   {"username", "email", "password"})]
            /\ reqs' = [reqs EXCEPT ![r].pc = "issue", ![r].pw = None]
            /\ UNCHANGED last
  /\ UNCHANGED <<appVars, now, cfg, store, issuedA, issuedR, expired>>

\* generateAccessToken, generateRefreshToken (sign, then redisSet), response.
\* A login of the same user that is still under way learns in prev which
\* refresh token this response carried (history only).
\* an issuance that answers with the tokens although redisSet failed
IssueTokens_IgnoreWriteFailure(r, op, okStatus, up) ==
  LET u  == reqs[r].u
      at == GenerateAccessToken(UserDoc(u), now)
      rt == SignRefreshToken(u, cfg, now)
  IN /\ store' = IF up THEN RedisSet(store, u, rt, now) ELSE store
     /\ issuedA' = issuedA \cup {at}
     /\ issuedR' = issuedR \cup {[tok |-> rt, stale |-> FALSE]}
     /\ last' = Resp(op, okStatus)
     /\ reqs' = [reqs EXCEPT ![r] = Idle]

IssueTokens(r, op, okStatus, up) ==
  LET u  == reqs[r].u
      at == GenerateAccessToken(UserDoc(u), now)
      rt == SignRefreshToken(u, cfg, now)
  IN IF ~up
       THEN /\ Finish(r, Resp(op, 500))
            /\ UNCHANGED <<store, issuedA, issuedR>>
       ELSE /\ store' = RedisSet(store, u, rt, now)
            /\ issuedA' = issuedA \cup {at}
            /\ issuedR' = issuedR \cup {[tok |-> rt, stale |-> FALSE]}
            /\ last' = Resp(op, okStatus)
            /\ reqs' = [q \in Reqs |->
                 IF q = r THEN Idle
                 ELSE IF op = "login" /\ reqs[q].kind = "login" /\ reqs[q].u = u
                   THEN [reqs[q] EXCEPT !.prev = rt]
                 ELSE reqs[q]]

RegisterIssue(r, up) ==
  /\ reqs[r].kind = "register" /\ reqs[r].pc = "issue"
  /\ IssueTokens(r, "register", 201, up)
  /\ UNCHANGED <<appVars, now, cfg, users, expired>>

\* ----------------------------------------------------- POST /auth/login
\* findOne, comparePassword on the document just read, save of lastLogin
LoginCheck(r, u, pw) ==
  /\ FreeSlot(r)
  /\ IF ~users[u].reg \/ ~ComparePassword(pw, users[u].password)
       THEN Finish(r, Resp("login", 401))
       ELSE /\ reqs' = [reqs EXCEPT ![r] =
                          [Idle EXCEPT !.kind = "login", !.pc = "issue", !.u = u]]
            /\ UNCHANGED last
  /\ users' = [users EXCEPT ![u] = IF users[u].reg /\ ComparePassword(pw, users[u].password)
                                     THEN PreSave(@, {"lastLogin"}) ELSE @]
  /\ UNCHANGED <<appVars, now, cfg, store, issuedA, issuedR, expired>>

LoginIssue(r, up) ==
  /\ reqs[r].kind = "login" /\ reqs[r].pc = "issue"
  /\ IssueTokens(r, "login", 200, up)
  /\ UNCHANGED <<appVars, now, cfg, users, expired>>

\* -------------------------------------------- POST /auth/refresh-token
\* a refresh-token handler that also issues a new refresh token
RefreshToken_Rotating(tok, up) ==
  LET v == VerifyRefreshToken(tok, store, up, cfg, now)
  IN /\ up \/ v.rd
     /\ IF tok = NoTok
          THEN /\ last' = Resp("refresh", 400)
               /\ UNCHANGED <<issuedA, issuedR, store>>
        ELSE IF ~v.ok
          THEN /\ last' = Resp("refresh", v.status)
               /\ UNCHANGED <<issuedA, issuedR, store>>
        ELSE IF ~users[v.id].reg
          THEN /\ last' = Resp("refresh", 404)
               /\ UNCHANGED <<issuedA, issuedR, store>>
        ELSE /\ issuedA' = issuedA \cup {GenerateAccessToken(UserDoc(v.id), now)}
             /\ store' = RedisSet(store, v.id, SignRefreshToken(v.id, cfg, now), now)
             /\ issuedR' = issuedR \cup
                   {[tok |-> SignRefreshToken(v.id, cfg, now), stale |-> FALSE]}
             /\ last' = Resp("refresh", 200)
     /\ UNCHANGED <<appVars, now, cfg, users, reqs, expired>>

\* a refresh-token handler that answers 200 without a new access token
RefreshToken_NoMint(tok, up) ==
  LET v == VerifyRefreshToken(tok, store, up, cfg, now)
  IN /\ up \/ v.rd
     /\ IF tok = NoTok
          THEN last' = Resp("refresh", 400)
        ELSE IF ~v.ok
          THEN last' = Resp("refresh", v.status)
        ELSE IF ~users[v.id].reg
          THEN last' = Resp("refresh", 404)
        ELSE last' = Resp("refresh", 200)
     /\ UNCHANGED <<appVars, now, cfg, users, store, reqs, issuedA, issuedR, expired>>

RefreshToken(tok, up) ==
  LET v == VerifyRefreshToken(tok, store, up, cfg, now)
  IN /\ up \/ v.rd
     /\ IF tok = NoTok
          THEN /\ last' = Resp("refresh", 400)
               /\ UNCHANGED issuedA
        ELSE IF ~v.ok
          THEN /\ last' = Resp("refresh", v.status)
               /\ UNCHANGED issuedA
        ELSE IF ~users[v.id].reg
          THEN /\ last' = Resp("refresh", 404)
               /\ UNCHANGED issuedA
        ELSE /\ issuedA' = issuedA \cup {GenerateAccessToken(UserDoc(v.id), now)}
             /\ last' = Resp("refresh", 200)
     /\ UNCHANGED <<appVars, now, cfg, users, store, reqs, issuedR, expired>>

\* A Redis call of a request either succeeds or fails (up = FALSE); a
\* request that makes no Redis call is listed once, with up = TRUE, and a
\* change-password request whose bearer is rejected is listed with one body.

\* ----------------------------------------------------- authenticateToken
\* authenticateToken that reads the claims without verifying the token
AuthenticateToken_Decode(bearer) ==
  IF bearer # NoTok /\ bearer.typ \in {"access", "refresh"}
    THEN [ok |-> TRUE, status |-> 200, id |-> bearer.id, user |-> Payload(bearer)]
    ELSE [ok |-> FALSE, status |-> 401, id |-> None, user |-> NoClaims]

\* the bearer token goes through verifyAccessToken; req.user is its payload
AuthenticateToken(bearer) ==
  IF bearer = NoTok
    THEN [ok |-> FALSE, status |-> 401, id |-> None, user |-> NoClaims]
    ELSE VerifyAccessToken(bearer, now)

\* -------------------------------------------------------- authorizeRoles
\* the guard authorizeRoles(roles) applied to req.user: both refusals throw
\* UnauthorizedError
AuthorizeRoles(roles, user) ==
  IF user = NoClaims
    THEN [ok |-> FALSE, status |-> 401]
  ELSE IF user.role \notin roles
    THEN [ok |-> FALSE, status |-> 401]
  ELSE [ok |-> TRUE, status |-> 200]

\* a request through a route guarded by authorizeRoles(roles), mounted after
\* authenticateToken (ordered) or, misordered, without it; 200 stands for the
\* call of next()
GuardedRoute(bearer, roles, ordered) ==
  LET a == AuthenticateToken(bearer)
      z == AuthorizeRoles(roles, IF ordered THEN a.user ELSE NoClaims)
  IN /\ ordered \/ bearer = NoTok
     /\ IF ordered /\ ~a.ok
          THEN last' = Resp("authenticate", a.status)
          ELSE last' = Resp("authorize", z.status)
     /\ UNCHANGED <<appVars, now, cfg, users, store, reqs, issuedA, issuedR, expired>>

\* a logout that clears the whole revocation store
Logout_ClearAll(bearer, body, up) ==
  LET a == AuthenticateToken(bearer)
  IN /\ up \/ (a.ok /\ body # NoTok)
     /\ IF ~a.ok
          THEN /\ last' = Resp("logout", a.status)
               /\ UNCHANGED store
        ELSE IF body = NoTok
          THEN /\ last' = Resp("logout", 400)
               /\ UNCHANGED store
        ELSE IF ~up
          THEN /\ last' = Resp("logout", 500)
               /\ UNCHANGED store
        ELSE /\ store' = [u \in Users |-> NoEntry]
             /\ last' = Resp("logout", 200)
     /\ UNCHANGED <<appVars, now, cfg, users, reqs, issuedA, issuedR, expired>>

\* --------------------------------------------------- POST /auth/logout
Logout(bearer, body, up) ==
  LET a == AuthenticateToken(bearer)
  IN /\ up \/ (a.ok /\ body # NoTok)
     /\ IF ~a.ok
          THEN /\ last' = Resp("logout", a.status)
               /\ UNCHANGED store
        ELSE IF body = NoTok
          THEN /\ last' = Resp("logout", 400)
               /\ UNCHANGED store
        ELSE IF ~up
          THEN /\ last' = Resp("logout", 500)
               /\ UNCHANGED store
        ELSE /\ store' = InvalidateRefreshToken(store, a.id)
             /\ last' = Resp("logout", 200)
     /\ UNCHANGED <<appVars, now, cfg, users, reqs, issuedA, issuedR, expired>>

\* ---------------------------------------------------- GET /auth/profile
Profile(bearer) ==
  LET a == AuthenticateToken(bearer)
  IN /\ IF ~a.ok
          THEN last' = Resp("profile", a.status)
        ELSE IF ~users[a.id].reg
          THEN last' = Resp("profile", 404)
        ELSE last' = Resp("profile", 200)
     /\ UNCHANGED <<appVars, now, cfg, users, store, reqs, issuedA, issuedR, expired>>

\* ---------------------------------------------------- PUT /auth/profile
\* authenticateToken, findById, and for a new e-mail address
\* User.findOne({email}); email = None is a body that changes the names only
ProfileUpdateCheck(r, bearer, email) ==
  LET a == AuthenticateToken(bearer)
  IN /\ FreeSlot(r)
     /\ a.ok \/ email = None
     /\ IF ~a.ok
          THEN Finish(r, Resp("profileUpdate", a.status))
        ELSE IF ~users[a.id].reg
          THEN Finish(r, Resp("profileUpdate", 404))
        ELSE IF email # None /\ email # users[a.id].email
                  /\ \E o \in Users : users[o].reg /\ users[o].email = email
          THEN Finish(r, Resp("profileUpdate", 400))
        ELSE /\ reqs' = [reqs EXCEPT ![r] =
                  [Idle EXCEPT !.kind = "profileUpdate", !.pc = "save", !.u = a.id,
                               !.email = IF email = users[a.id].email THEN None ELSE email]]
             /\ UNCHANGED last
     /\ UNCHANGED <<appVars, now, cfg, users, store, issuedA, issuedR, expired>>

\* user.email = email; await user.save(): the unique index on email rejects
\* an address another record took in the meantime (409)
ProfileUpdateSave(r) ==
  /\ reqs[r].kind = "profileUpdate" /\ reqs[r].pc = "save"
  /\ IF reqs[r].email # None
          /\ \E o \in Users \ {reqs[r].u} : users[o].reg /\ users[o].email = reqs[r].email
       THEN /\ Finish(r, Resp("profileUpdate", 409))
            /\ UNCHANGED users
       ELSE /\ users' = [users EXCEPT ![reqs[r].u] =
                  PreSave([@ EXCEPT !.email = IF reqs[r].email = None THEN @ ELSE reqs[r].email],
                          {"firstName", "lastName", "email"})]
            /\ Finish(r, Resp("profileUpdate", 200))
  /\ UNCHANGED <<appVars, now, cfg, store, issuedA, issuedR, expired>>

\* ------------------------------------------- POST /auth/change-password
\* authenticateToken, body validation, findById, comparePassword; the
\* change-password requests of one user do not overlap
ChangePasswordCheck(r, bearer, cur, np) ==
  LET a == AuthenticateToken(bearer)
  IN /\ FreeSlot(r)
     /\ a.ok \/ (cur \in RegPasswords /\ np = None)
     /\ IF ~a.ok
          THEN Finish(r, Resp("changePassword", a.status))
        ELSE IF np = None
          THEN Finish(r, Resp("changePassword", 400))
        ELSE IF ~users[a.id].reg
          THEN Finish(r, Resp("changePassword", 404))
        ELSE IF ~ComparePassword(cur, users[a.id].password)
          THEN Finish(r, Resp("changePassword", 401))
        ELSE /\ ~InFlight("changePassword", a.id)
             /\ reqs' = [reqs EXCEPT ![r] =
                           [Idle EXCEPT !.kind = "changePassword", !.pc = "save",
                                        !.u = a.id, !.pw = np]]
             /\ UNCHANGED last
     /\ UNCHANGED <<appVars, now, cfg, users, store, issuedA, issuedR, expired>>

\* user.password = newPassword; await user.save()
ChangePasswordSave(r) ==
  /\ reqs[r].kind = "changePassword" /\ reqs[r].pc = "save"
  /\ users' = [users EXCEPT ![reqs[r].u] =
                  PreSave([@ EXCEPT !.password = Plain(reqs[r].pw)], {"password"})]
  /\ reqs' = [q \in Reqs |->
       IF q = r THEN [reqs[r] EXCEPT !.pc = "invalidate", !.pw = None]
       ELSE IF reqs[q].kind = "login" /\ reqs[q].u = reqs[r].u /\ reqs[q].auth = "current"
         THEN [reqs[q] EXCEPT !.auth = "replaced"]
       ELSE reqs[q]]
  /\ UNCHANGED <<appVars, now, cfg, store, issuedA, issuedR, expired, last>>

\* await auth.invalidateRefreshToken(user._id); res.json
ChangePasswordInvalidate(r, up) ==
  /\ reqs[r].kind = "changePassword" /\ reqs[r].pc = "invalidate"
  /\ IF ~up
       THEN /\ Finish(r, Resp("changePassword", 500))
            /\ UNCHANGED <<store, issuedR>>
       ELSE /\ store' = InvalidateRefreshToken(store, reqs[r].u)
            /\ issuedR' = {IF e.tok.id = reqs[r].u THEN [e EXCEPT !.stale = TRUE] ELSE e :
                             e \in issuedR}
            /\ last' = Resp("changePassword", 200)
            /\ reqs' = [q \in Reqs |->
                 IF q = r THEN Idle
                 ELSE IF reqs[q].kind = "login" /\ reqs[q].u = reqs[r].u
                           /\ reqs[q].auth = "replaced"
                   THEN [reqs[q] EXCEPT !.auth = "changed"]
                 ELSE reqs[q]]
  /\ UNCHANGED <<appVars, now, cfg, users, issuedA, expired>>

\* ------------------------------------------------------------ environment
\* the first access token to expire is the one a client keeps
Keep(old, gone) == IF old # NoTok \/ gone = {} THEN old ELSE CHOOSE t \in gone : TRUE

\* a second passes; Redis drops the keys whose time-to-live has run out
Tick ==
  /\ now < MaxTime
  /\ now' = now + 1
  /\ store' = RedisExpire(store, now + 1)
  /\ issuedA' = {a \in issuedA : now + 1 < a.exp}
  /\ issuedR' = {e \in issuedR : now + 1 < e.tok.exp}
  /\ expired' = Keep(expired, {a \in issuedA : now + 1 >= a.exp})
  /\ UNCHANGED <<appVars, cfg, users, reqs, last>>

\* the requests of the users in U, handled in the slots R
NextOn(R, U) ==
  \/ \E r \in R, u \in U, pw \in RegPasswords : RegisterFind(r, u, pw)
  \/ \E r \in R : RegisterSave(r)
  \/ \E r \in R, up \in BOOLEAN : RegisterIssue(r, up)
  \/ \E r \in R, u \in U, pw \in Passwords : LoginCheck(r, u, pw)
  \/ \E r \in R, up \in BOOLEAN : LoginIssue(r, up)
  \/ \E tok \in Presentable \cup {NoTok}, up \in BOOLEAN : RefreshToken(tok, up)
  \/ \E bearer \in Bearers \cup {NoTok}, body \in {NoTok, Garbage}, up \in BOOLEAN :
        Logout(bearer, body, up)
  \/ \E bearer \in Presentable \cup {NoTok} : Profile(bearer)
  \/ \E r \in R, bearer \in Bearers \cup {NoTok}, cur \in Passwords,
        np \in Passwords \cup {None} : ChangePasswordCheck(r, bearer, cur, np)
  \/ \E r \in R : ChangePasswordSave(r)
  \/ \E r \in R, up \in BOOLEAN : ChangePasswordInvalidate(r, up)
  \/ Tick

\* requests of one user, two of them at a time
Next == NextOn(Reqs, {"u1"})
Spec == Init /\ [][Next]_vars

\* requests of two users that keep their passwords, each request running
\* alone from its first step to its response
NextUsers ==
  \/ \E u \in Users, pw \in RegPasswords : RegisterFind(1, u, pw)
  \/ RegisterSave(1)
  \/ \E up \in BOOLEAN : RegisterIssue(1, up)
  \/ \E u \in Users, pw \in Passwords : LoginCheck(1, u, pw)
  \/ \E up \in BOOLEAN : LoginIssue(1, up)
  \/ \E tok \in Presentable \cup {NoTok}, up \in BOOLEAN : RefreshToken(tok, up)
  \/ \E bearer \in Bearers \cup {NoTok}, body \in {NoTok, Garbage}, up \in BOOLEAN :
        Logout(bearer, body, up)
  \/ \E bearer \in Presentable \cup {NoTok} : Profile(bearer)
  \/ Tick

\* a deployment may set JWT_REFRESH_SECRET to the value of JWT_SECRET
InitUsers ==
  /\ now = 0
  /\ cfg \in [refreshLife : RefreshLives, refreshSecret : {RefreshSecret, AccessSecret},
            nodeEnv : {"production"}, apiKey : {"k1"}]
  /\ users = [u \in Users |-> NoUser]
  /\ store = [u \in Users |-> NoEntry]
  /\ reqs = [r \in Reqs |-> Idle]
  /\ issuedA = {}
  /\ issuedR = {}
  /\ expired = NoTok
  /\ last = Resp("none", 0)
  /\ AppStarted

SpecUsers == InitUsers /\ [][NextUsers]_vars

\* the requests that read and write the Credential Store, for one user, two
\* of them at a time, with a store that does not fail; a profile update
\* keeps the e-mail address or changes it to the second one
NextPasswords ==
  \/ \E r \in Reqs, pw \in RegPasswords : RegisterFind(r, "u1", pw)
  \/ \E r \in Reqs : RegisterSave(r)
  \/ \E r \in Reqs : RegisterIssue(r, TRUE)
  \/ \E r \in Reqs, pw \in Passwords : LoginCheck(r, "u1", pw)
  \/ \E r \in Reqs : LoginIssue(r, TRUE)
  \/ \E r \in Reqs, bearer \in Bearers \cup {NoTok}, email \in {"e2", None} :
        ProfileUpdateCheck(r, bearer, email)
  \/ \E r \in Reqs : ProfileUpdateSave(r)
  \/ \E r \in Reqs, bearer \in Bearers \cup {NoTok}, cur \in Passwords,
        np \in Passwords \cup {None} : ChangePasswordCheck(r, bearer, cur, np)
  \/ \E r \in Reqs : ChangePasswordSave(r)
  \/ \E r \in Reqs : ChangePasswordInvalidate(r, TRUE)
  \/ Tick

SpecPasswords == Init /\ [][NextPasswords]_vars

\* registrations with any e-mail address and profile updates of two users,
\* two requests at a time, with a store that does not fail
NextAccounts ==
  \/ \E r \in Reqs, u \in Users, pw \in RegPasswords, email \in Emails :
        RegisterFindEmail(r, u, pw, email)
  \/ \E r \in Reqs : RegisterSave(r)
  \/ \E r \in Reqs : RegisterIssue(r, TRUE)
  \/ \E r \in Reqs, bearer \in Bearers \cup {NoTok}, email \in Emails \cup {None} :
        ProfileUpdateCheck(r, bearer, email)
  \/ \E r \in Reqs : ProfileUpdateSave(r)

SpecAccounts == Init /\ [][NextAccounts]_vars

\* the role sets a route hands to authorizeRoles
RoleSets == {{"admin"}, {"user"}, {"user", "admin"}}

\* the guards, on the tokens of one account that exists from the start with
\* any role and e-mail address (the role of an account is set in the
\* database, no route writes it)
InitGuards ==
  /\ now = 0
  /\ cfg \in [refreshLife : RefreshLives, refreshSecret : {RefreshSecret, AccessSecret},
            nodeEnv : {"production"}, apiKey : {"k1"}]
  /\ users \in {[u \in Users |->
                   IF u = "u1"
                     THEN [reg |-> TRUE, password |-> Hash(Plain("p1")),
                           email |-> e, role |-> ro]
                     ELSE NoUser] : e \in Emails, ro \in Roles}
  /\ store = [u \in Users |-> NoEntry]
  /\ reqs = [r \in Reqs |-> Idle]
  /\ issuedA = {}
  /\ issuedR = {}
  /\ expired = NoTok
  /\ last = Resp("none", 0)
  /\ AppStarted

NextGuards ==
  \/ \E pw \in Passwords : LoginCheck(1, "u1", pw)
  \/ \E up \in BOOLEAN : LoginIssue(1, up)
  \/ \E bearer \in Presentable \cup {NoTok}, body \in {NoTok, Garbage}, up \in BOOLEAN :
        Logout(bearer, body, up)
  \/ \E bearer \in Presentable \cup {NoTok} : Profile(bearer)
  \/ \E bearer \in Presentable \cup {NoTok}, roles \in RoleSets, ordered \in BOOLEAN :
        GuardedRoute(bearer, roles, ordered)
  \/ Tick

SpecGuards == InitGuards /\ [][NextGuards]_vars

\* -------------------------------------------------- catalogue: actions
\* the process serves requests from its start until it exits
Serving == {"syncing", "up", "rejected"}

\* GET of a path on the router of kind: the first matching route, its
\* cacheMiddleware (a cached body is sent with res.json, status 200;
\* otherwise res.json is wrapped so that whatever body is sent through it,
\* by the handler or by errorHandlerMiddleware, is stored under the URL),
\* then its handler
Get(kind, path, up, db) ==
  LET route == Dispatch(Routes(kind), path)
      cacheKey == OriginalUrl(kind, path)
      caching == up /\ Cached(route)
      cachedData == IF caching THEN GetCache(cache, cacheKey, up) ELSE NoBody
      out == Handle(route, catalog[kind], path, db, cfg.nodeEnv)
      sent == [NoRes EXCEPT !.op = "get", !.kind = kind, !.path = path, !.handler = route]
  IN /\ boot.pc \in Serving
     /\ IF cachedData # NoBody
          THEN /\ res' = [sent EXCEPT !.status = 200, !.fromCache = TRUE, !.body = cachedData]
               /\ UNCHANGED cache
          ELSE /\ res' = [sent EXCEPT !.status = out.status, !.body = out.body]
               /\ cache' = IF caching THEN SetCache(cache, cacheKey, out.body, up) ELSE cache
     /\ UNCHANGED <<catalog, boot, authVars, now>>

\* the answers of POST /api/sync
SyncRes(key, status, body, result) ==
  [NoRes EXCEPT !.op = "sync", !.key = key, !.status = status, !.body = body,
                !.result = result]

ApiKeyRequired ==
  [NoBody EXCEPT !.error = "api key required (fa)", !.error_en = "API key required",
                 !.message = "api key required in production (fa)",
                 !.message_en = "API key required for sync in production"]
ApiKeyInvalid ==
  [NoBody EXCEPT !.error = "api key invalid (fa)", !.error_en = "Invalid API key",
                 !.message = "the api key is not valid (fa)",
                 !.message_en = "The provided API key is invalid"]

\* a POST /api/sync that never looks at the key
SyncRequest_NoKeyCheck(key, uni, job, dbUp, up) ==
  LET r == SyncAllData(catalog, cache, uni, job, dbUp, up, now)
      e == ErrorHandler(InternalServerError("sync error (fa)", "Error synchronizing data"),
                        cfg.nodeEnv)
  IN /\ boot.pc \in Serving
     /\ catalog' = r.catalog
     /\ cache' = r.cache
     /\ res' = IF r.thrown THEN SyncRes(key, e.status, e.body, r.result)
               ELSE SyncRes(key, 200, NoBody, r.result)
     /\ UNCHANGED <<boot, authVars, now>>

\* POST /api/sync with the x-api-key header key (None when absent)
SyncRequest(key, uni, job, dbUp, up) ==
  LET r == SyncAllData(catalog, cache, uni, job, dbUp, up, now)
      e == ErrorHandler(InternalServerError("sync error (fa)", "Error synchronizing data"),
                        cfg.nodeEnv)
  IN /\ boot.pc \in Serving
     /\ IF cfg.nodeEnv = "production" /\ key \in {None, ""}
          THEN /\ res' = SyncRes(key, 401, ApiKeyRequired, NoResult)
               /\ UNCHANGED <<catalog, cache>>
        ELSE IF cfg.nodeEnv = "production" /\ key # cfg.apiKey
          THEN /\ res' = SyncRes(key, 403, ApiKeyInvalid, NoResult)
               /\ UNCHANGED <<catalog, cache>>
        ELSE /\ catalog' = r.catalog
             /\ cache' = r.cache
             /\ res' = IF r.thrown THEN SyncRes(key, e.status, e.body, r.result)
                       ELSE SyncRes(key, 200, NoBody, r.result)
     /\ UNCHANGED <<boot, authVars, now>>

\* connectDB: the promise resolves, or the process exits with code 1
ConnectDB(ok) ==
  /\ boot.pc = "connecting"
  /\ boot' = [boot EXCEPT !.pc = IF ok THEN "syncing" ELSE "exited"]
  /\ UNCHANGED <<catalog, cache, res, authVars, now>>

\* syncAllData().then(result => { ...; scheduleSync('0 2 * * *') }): a
\* rejection of syncAllData has no handler, the callback that schedules is
\* not run; the process goes on without the schedule, or is ended by the
\* unhandled rejection (crash)
InitialSync(uni, job, dbUp, up, crash) ==
  LET r == SyncAllData(catalog, cache, uni, job, dbUp, up, now)
  IN /\ boot.pc = "syncing"
     /\ catalog' = r.catalog
     /\ cache' = r.cache
     /\ boot' = IF ~r.thrown THEN [pc |-> "up", scheduled |-> TRUE]
                ELSE [pc |-> IF crash THEN "exited" ELSE "rejected", scheduled |-> FALSE]
     /\ UNCHANGED <<res, authVars, now>>

\* the task of scheduleSync fires: syncAllData, an error is logged
CronSync(uni, job, dbUp, up) ==
  LET r == SyncAllData(catalog, cache, uni, job, dbUp, up, now)
  IN /\ boot.scheduled /\ boot.pc \in Serving
     /\ catalog' = r.catalog
     /\ cache' = r.cache
     /\ UNCHANGED <<boot, res, authVars, now>>

\* values of the x-api-key header: absent, empty, the key of the
\* deployment, another key
ApiKeys == {None, "", "k1", "k2"}

\* the records of the provider that carry an id
IdItems == {d \in RawItems : d.id # None}

\* the catalogue routes and the manual sync on a server that is up, in
\* either mode, with API_KEY set or not; the provider sends records with ids
InitCatalogue ==
  /\ now = 0
  /\ cfg \in [refreshLife : {2}, refreshSecret : {RefreshSecret},
            nodeEnv : Modes, apiKey : {None, "k1"}]
  /\ users = [u \in Users |-> NoUser]
  /\ store = [u \in Users |-> NoEntry]
  /\ reqs = [r \in Reqs |-> Idle]
  /\ issuedA = {}
  /\ issuedR = {}
  /\ expired = NoTok
  /\ last = Resp("none", 0)
  /\ AppStarted

NextCatalogue ==
  \/ \E kind \in Kinds, up \in BOOLEAN, db \in {"ok", "cast", "down"} :
       \E path \in GetPaths(kind) : Get(kind, path, up, db)
  \/ \E key \in ApiKeys, uni \in UniResponses, job \in Responses(IdItems),
        dbUp \in BOOLEAN : SyncRequest(key, uni, job, dbUp, TRUE)

SpecCatalogue == InitCatalogue /\ [][NextCatalogue]_vars

\* the start-up and the synchronisations, manual and scheduled, with a
\* provider that also sends records without an id
InitSync ==
  /\ now = 0
  /\ cfg \in [refreshLife : {2}, refreshSecret : {RefreshSecret},
            nodeEnv : Modes, apiKey : {"k1"}]
  /\ users = [u \in Users |-> NoUser]
  /\ store = [u \in Users |-> NoEntry]
  /\ reqs = [r \in Reqs |-> Idle]
  /\ issuedA = {}
  /\ issuedR = {}
  /\ expired = NoTok
  /\ last = Resp("none", 0)
  /\ catalog = [k \in Kinds |-> {}]
  /\ cache = [k \in CacheKeys |-> NoBody]
  /\ boot = [pc |-> "connecting", scheduled |-> FALSE]
  /\ res = NoRes

StartSync ==
  \E uni \in UniResponses, job \in Responses(RawItems), dbUp \in BOOLEAN,
     crash \in BOOLEAN : InitialSync(uni, job, dbUp, TRUE, crash)

NextSync ==
  \/ \E ok \in BOOLEAN : ConnectDB(ok)
  \/ StartSync
  \/ \E key \in {None, "k1"}, uni \in UniResponses, job \in Responses(RawItems),
        dbUp \in BOOLEAN : SyncRequest(key, uni, job, dbUp, TRUE)
  \/ \E uni \in UniResponses, job \in Responses(RawItems), dbUp \in BOOLEAN :
        CronSync(uni, job, dbUp, TRUE)
  \/ Tick

\* the callback of a settled promise is run: once the database is
\* connected the initial synchronisation is started and comes to an end
SpecSync == InitSync /\ [][NextSync]_vars /\ WF_vars(StartSync)

\* ------------------------------------------------------------ properties
\* verifyRefreshToken accepts tok when the store holds s at time t
Accepts(tok, s, t) == VerifyRefreshToken(tok, s, TRUE, cfg, t).ok

\* the signature and expiry test of a refresh token, stated on its fields
RefreshSigExpOK(tok) ==
  /\ tok.typ \in {"access", "refresh"}
  /\ tok.sec = cfg.refreshSecret
  /\ tok.exp > now

\* a step in which request r hands out tokens for user u
IssueStep(r, u) ==
  /\ reqs[r].pc = "issue" /\ reqs[r].u = u
  /\ reqs'[r] = Idle
  /\ last'.status \in {200, 201}

\* C1: verifyRefreshToken returns the claims of a token exactly when the
\* token passes the signature and expiry test against the refresh secret and
\* the store holds that very token under the key of the id in its claims;
\* otherwise, a failed store read included, it fails with status 401.
C1_VerifyRefreshIff ==
  \A tok \in Presentable \cup {NoTok} :
    LET v == VerifyRefreshToken(tok, store, TRUE, cfg, now)
        f == VerifyRefreshToken(tok, store, FALSE, cfg, now)
    IN /\ v.ok <=> (RefreshSigExpOK(tok) /\ store[tok.id].tok = tok)
       /\ v.ok => v.id = tok.id /\ v.status = 200
       /\ ~v.ok => v.status = 401
       /\ ~f.ok /\ f.status = 401

\* one user's token is accepted while another user's token, which passes
\* the signature and expiry test, is rejected by the store comparison
C1_Witness ==
  \E t1, t2 \in Presentable :
    /\ Accepts(t1, store, now)
    /\ RefreshSigExpOK(t2) /\ ~Accepts(t2, store, now)
    /\ t1.id # t2.id
    /\ store[t2.id].tok # NoTok

\* C2: when a user is issued a refresh token while the store still holds
\* the token of the previous issuance, then afterwards the first-issued token
\* is rejected and the second-issued token is accepted, however little time
\* lies between the two issuances.
C2_SecondIssuanceSupersedes ==
  [][\A r \in Reqs, u \in Users :
       (IssueStep(r, u) /\ store[u].tok # NoTok)
         => /\ ~Accepts(store[u].tok, store', now')
            /\ Accepts(store'[u].tok, store', now')]_vars

\* C3: in every reachable state each user has at most one token that
\* verifyRefreshToken accepts.
C3_OneLiveTokenPerUser ==
  \A u \in Users :
    Cardinality({t \in Presentable : t.id = u /\ Accepts(t, store, now)}) <= 1

\* a user holds two different refresh tokens that both pass the signature
\* and expiry test, and exactly one of them is accepted
C3_Witness ==
  \E e1, e2 \in issuedR :
    /\ e1.tok # e2.tok /\ e1.tok.id = e2.tok.id
    /\ RefreshSigExpOK(e1.tok) /\ RefreshSigExpOK(e2.tok)
    /\ Accepts(e1.tok, store, now) /\ ~Accepts(e2.tok, store, now)

\* a step in which invalidateRefreshToken(u) completes: a logout of u, or
\* the last step of a change-password of u
InvalidateStep(u) ==
  \/ /\ last'.op = "logout"
     /\ \E bearer \in Bearers :
          /\ AuthenticateToken(bearer).ok /\ AuthenticateToken(bearer).id = u
          /\ Logout(bearer, Garbage, TRUE)
  \/ \E r \in Reqs :
       /\ reqs[r].kind = "changePassword" /\ reqs[r].u = u
       /\ ChangePasswordInvalidate(r, TRUE)

\* C4: when invalidateRefreshToken(u) completes, the response is a success
\* whether or not the store held an entry, the store holds no entry for u
\* and none of the tokens of u is accepted; and a token of u is accepted
\* again only through a step that issues a new one.
C4_InvalidateRevokesAll ==
  [][\A u \in Users :
       /\ InvalidateStep(u)
            => /\ last'.status = 200
               /\ store'[u] = NoEntry
               /\ \A tok \in Presentable' : tok.id = u => ~Accepts(tok, store', now')
       /\ (store[u] = NoEntry /\ store'[u] # NoEntry) => \E r \in Reqs : IssueStep(r, u)]_vars

\* invalidateRefreshToken has just completed and a refresh token issued
\* before it, which passes the signature and expiry test, is rejected
C4_Witness ==
  /\ last \in {Resp("logout", 200), Resp("changePassword", 200)}
  /\ \E e \in issuedR :
       /\ RefreshSigExpOK(e.tok)
       /\ store[e.tok.id] = NoEntry
       /\ ~Accepts(e.tok, store, now)

\* tok was handed out for its user before a change-password of that user
\* completed
IssuedBeforeChange(tok) == \E e \in issuedR : e.tok = tok /\ e.stale

\* C5: a refresh-token request that presents a refresh token issued before a
\* completed change-password of its user is answered 401 and mints no
\* access token.
C5_OldTokenCannotRefresh ==
  [][\A tok \in Presentable :
       (IssuedBeforeChange(tok) /\ RefreshToken(tok, TRUE))
         => last'.status = 401 /\ issuedA' = issuedA]_vars

\* C6: a login whose password check was made against a password that a
\* completed change-password has since replaced does not leave behind a
\* refresh token that verifyRefreshToken accepts.
C6_NoTokenFromOldPassword ==
  [][\A r \in Reqs :
       (reqs[r].kind = "login" /\ reqs[r].auth = "changed" /\ LoginIssue(r, TRUE))
         => ~Accepts(store'[reqs[r].u].tok, store', now')]_vars

\* C7: when the later of two overlapping logins of one user writes its
\* refresh token, the store holds that token, and of the two tokens returned
\* (prev by the login that wrote first) exactly one is accepted.
C7_ConcurrentLoginsOneSurvivor ==
  [][\A r \in Reqs :
       (reqs[r].kind = "login" /\ reqs[r].prev # NoTok /\ LoginIssue(r, TRUE))
         => /\ store'[reqs[r].u].tok = SignRefreshToken(reqs[r].u, cfg, now)
            /\ Accepts(reqs[r].prev, store', now') # Accepts(store'[reqs[r].u].tok, store', now')]_vars

Holding(tok) ==
  IF tok.id \in Users THEN [store EXCEPT ![tok.id] = [tok |-> tok, expAt |-> now + 1]] ELSE store

\* C9: a token whose secret is not the one of its class, or whose expiry has
\* elapsed, is rejected with status 401 by verifyAccessToken and by
\* verifyRefreshToken, whatever the store holds, also when the store holds
\* that very token.
C9_BadSecretOrExpiredFails ==
  \A tok \in Presentable :
    /\ (tok.sec # AccessSecret \/ now >= tok.exp)
         => ~VerifyAccessToken(tok, now).ok /\ VerifyAccessToken(tok, now).status = 401
    /\ (tok.sec # cfg.refreshSecret \/ now >= tok.exp)
         => \A s \in {store, Holding(tok)}, up \in BOOLEAN :
              /\ ~VerifyRefreshToken(tok, s, up, cfg, now).ok
              /\ VerifyRefreshToken(tok, s, up, cfg, now).status = 401

\* the store still holds a refresh token whose expiry has elapsed, and a
\* client holds an expired access token
C9_Witness ==
  /\ \E u \in Users : store[u].tok # NoTok /\ now >= store[u].tok.exp
  /\ expired # NoTok /\ now >= expired.exp

\* C10: every access token that was issued and has not expired is accepted
\* by authenticateToken with the id of its user, whatever the store holds
\* for that user; the expired one is rejected.
C10_AccessTokenIgnoresStore ==
  /\ \A a \in issuedA :
       AuthenticateToken(a).ok /\ AuthenticateToken(a).id = a.id
  /\ expired # NoTok => ~AuthenticateToken(expired).ok

\* a logout or a change-password has just completed, the store holds no
\* entry for the user, and an access token issued before is still accepted
C10_Witness ==
  /\ last \in {Resp("logout", 200), Resp("changePassword", 200)}
  /\ \E a \in issuedA : store[a.id] = NoEntry /\ AuthenticateToken(a).ok

\* the signature and expiry test of an access token, stated on its fields
AccessSigExpOK(tok) ==
  /\ tok.typ \in {"access", "refresh"}
  /\ tok.sec = AccessSecret
  /\ tok.exp > now

\* C11: when a request carries no bearer token, or one that fails the
\* signature and expiry test of verifyAccessToken, authenticateToken attaches
\* no identity and the request is answered 401 without its handler having
\* run (nothing is deleted from the store); a handler runs only with the
\* payload of a bearer token that passes the test attached as req.user.
C11_AuthenticateFailsClosed ==
  [][\A bearer \in Presentable \cup {NoTok} :
       LET a == AuthenticateToken(bearer)
           bad == bearer = NoTok \/ ~AccessSigExpOK(bearer)
       IN /\ bad => (~a.ok /\ a.status = 401 /\ a.user = NoClaims)
          /\ a.ok => (a.user = Payload(bearer) /\ a.id = bearer.id)
          /\ Profile(bearer) => (bad <=> last' = Resp("profile", 401))
          /\ \A body \in {NoTok, Garbage}, up \in BOOLEAN :
               Logout(bearer, body, up)
                 => /\ bad <=> last' = Resp("logout", 401)
                    /\ bad => store' = store
                    /\ store' # store => store' = RedisDel(store, a.user.id)
          /\ \A roles \in RoleSets :
               GuardedRoute(bearer, roles, TRUE)
                 => /\ bad <=> last' = Resp("authenticate", 401)
                    /\ ~bad => last' = Resp("authorize", AuthorizeRoles(roles, Payload(bearer)).status)]_vars

\* a protected route has just answered 401 to a client whose access token
\* has expired, while another access token of the same user is still good
C11_Witness ==
  /\ last \in {Resp("profile", 401), Resp("logout", 401), Resp("authenticate", 401)}
  /\ expired # NoTok
  /\ \E a \in issuedA : a.id = expired.id /\ AuthenticateToken(a).ok

\* C12 as stated: the guard answers 403 when an identity is attached whose
\* role is not among the allowed roles, 401 when no identity is attached, and
\* calls the next handler only when the attached role is among them.
C12_AuthorizeRefusals ==
  [][\A bearer \in Presentable \cup {NoTok}, roles \in RoleSets, ordered \in BOOLEAN :
       GuardedRoute(bearer, roles, ordered)
         => LET user == IF ordered THEN AuthenticateToken(bearer).user ELSE NoClaims
            IN last'.op = "authorize"
                 => /\ user = NoClaims => last'.status = 401
                    /\ (user # NoClaims /\ user.role \notin roles) => last'.status = 403
                    /\ last'.status = 200 => (user # NoClaims /\ user.role \in roles)]_vars

\* C19: every access token that was issued and has not expired passes
\* verifyAccessToken, and the claims returned carry the id, username, e-mail
\* address and role of the user it was generated for.
C19_AccessClaimsRoundTrip ==
  \A a \in issuedA :
    LET v == VerifyAccessToken(a, now)
        user == UserDoc(a.id)
    IN /\ v.ok
       /\ v.user.id = user.id
       /\ v.user.username = user.username
       /\ v.user.email = user.email
       /\ v.user.role = user.role
       /\ user.role \in Roles /\ user.email \in Emails

\* a login has just handed an access token to an administrator whose
\* e-mail address is not the default one
C19_Witness ==
  /\ last = Resp("login", 200)
  /\ \E a \in issuedA :
       /\ a.role = "admin" /\ a.email = "e2" /\ a.username = "alice"
       /\ VerifyAccessToken(a, now).ok

\* C13: for every configuration of the two secrets, a token whose payload
\* carries type 'refresh' is rejected as a bearer credential by
\* authenticateToken, and a token whose payload carries no type (an access
\* token) is rejected by verifyRefreshToken.
C13_ClassesNotInterchangeable ==
  \A tok \in Presentable :
    /\ tok.typ = "refresh" => ~AuthenticateToken(tok).ok
    /\ tok.typ = "access" => ~VerifyRefreshToken(tok, store, TRUE, cfg, now).ok

\* C14: when the store write of generateRefreshToken fails, the login or
\* registration is answered 500 and hands out no token, the store is left as
\* it was; and every refresh token that a step hands to a client is, after
\* that step, the entry of its user in the store.
C14_WriteFailureAbortsIssuance ==
  [][/\ \A r \in Reqs :
          (LoginIssue(r, FALSE) \/ RegisterIssue(r, FALSE))
            => /\ last'.status = 500
               /\ issuedR' = issuedR /\ issuedA' = issuedA /\ store' = store
     /\ \A e \in issuedR' : e \notin issuedR => store'[e.tok.id].tok = e.tok
     /\ \A r \in Reqs, u \in Users :
          IssueStep(r, u) => \E e \in issuedR' : e.tok = store'[u].tok /\ e.tok.iat = now]_vars

\* an issuance has just failed on the store write, and its user has neither
\* a store entry nor a refresh token
C14_Witness ==
  /\ last \in {Resp("login", 500), Resp("register", 500)}
  /\ \E u \in Users :
       /\ users[u].reg /\ store[u] = NoEntry
       /\ \A e \in issuedR : e.tok.id # u

\* C15: when the store call of a login, registration, logout or
\* refresh-token request fails, the request is answered 500; in particular a
\* refresh-token request whose token passes the signature and expiry test
\* and whose store read fails is answered 500, not 401.
C15_StoreFailureIs500 ==
  [][/\ \A r \in Reqs :
          (LoginIssue(r, FALSE) \/ RegisterIssue(r, FALSE)) => last'.status = 500
     /\ \A bearer \in Bearers :
          (AuthenticateToken(bearer).ok /\ Logout(bearer, Garbage, FALSE))
            => last'.status = 500
     /\ \A tok \in Presentable :
          (RefreshSigExpOK(tok) /\ RefreshToken(tok, FALSE)) => last'.status = 500]_vars

\* C16: verifyRefreshToken reads the store only for a token that has passed
\* the signature and expiry test: a token that fails the test is rejected
\* without a store read, whether the store is reachable or not, and a token
\* that passes it causes one.
C16_LookupAfterSignature ==
  \A tok \in Presentable \cup {NoTok}, up \in BOOLEAN :
    LET v == VerifyRefreshToken(tok, store, up, cfg, now)
    IN /\ v.rd <=> RefreshSigExpOK(tok)
       /\ ~RefreshSigExpOK(tok) => (~v.ok /\ v.status = 401)

\* a refresh-token request has just been refused while the store holds, for
\* some user, a token that fails the expiry test: a read would have found it
C16_Witness ==
  /\ last = Resp("refresh", 401)
  /\ \E u \in Users :
       /\ store[u].tok # NoTok
       /\ ~RefreshSigExpOK(store[u].tok)
       /\ ~VerifyRefreshToken(store[u].tok, store, TRUE, cfg, now).rd

\* C17: for every configured refresh-token lifetime, the store entry written
\* by generateRefreshToken expires at the second its token expires: the
\* time-to-live of the entry equals exp - iat of the token.
C17_EntryExpiresWithToken ==
  \A u \in Users :
    store[u] # NoEntry => store[u].expAt = store[u].tok.exp

\* C18: a protected route called with an access token that was issued and
\* has not expired succeeds; called with an access token whose lifetime has
\* elapsed it is answered 401; a refresh-token request with a refresh token
\* that is still accepted is answered 200 and hands out an access token,
\* issued in that second, that authenticateToken accepts.
C18_ExpiryAndRenewal ==
  [][/\ \A a \in issuedA : Profile(a) => last' = Resp("profile", 200)
     /\ (expired # NoTok /\ Profile(expired)) => last' = Resp("profile", 401)
     /\ \A tok \in Presentable :
          (Accepts(tok, store, now) /\ RefreshToken(tok, TRUE))
            => /\ last' = Resp("refresh", 200)
               /\ \E a \in issuedA' :
                    /\ a.id = tok.id /\ a.iat = now
                    /\ VerifyAccessToken(a, now').ok]_vars

\* the whole course: a user holds an access token that has expired, the
\* refresh token issued with it is still the one in the store, a later
\* access token of the user (which can only come from a refresh-token
\* request) is accepted, and the profile route has just answered 200
C18_Witness ==
  /\ last = Resp("profile", 200)
  /\ expired # NoTok
  /\ \E a \in issuedA :
       /\ a.id = expired.id /\ a.iat > expired.iat
       /\ store[a.id].tok.iat = expired.iat
       /\ Accepts(store[a.id].tok, store, now)
       /\ AuthenticateToken(a).ok /\ ~AuthenticateToken(expired).ok

\* the stored password of u is the hash, applied once, of a password
HashedOnce(u) ==
  /\ \E p \in Passwords : users[u].password = Hash(Plain(p))
  /\ \A p \in Passwords : users[u].password # Plain(p)

\* C20: the stored password of every registered user is the hash, applied
\* once, of a password and never the plaintext; only the save of a
\* registration or of a change-password changes it (the saves of login and
\* of a profile update do not hash again); and after the save of a
\* change-password a login is let through exactly with the new password.
C20_StoredPasswordHashedOnce ==
  [][/\ \A u \in Users : users'[u].reg => HashedOnce(u)'
     /\ \A u \in Users :
          users'[u].password # users[u].password
            => \E r \in Reqs : reqs[r].u = u /\ (RegisterSave(r) \/ ChangePasswordSave(r))
     /\ \A r \in Reqs :
          ChangePasswordSave(r)
            => \A p \in Passwords :
                 ComparePassword(p, users'[reqs[r].u].password) <=> p = reqs[r].pw
     /\ \A r \in Reqs, u \in Users, pw \in Passwords :
          (users[u].reg /\ LoginCheck(r, u, pw))
            => /\ reqs'[r].kind = "login" <=> users[u].password = Hash(Plain(pw))
               /\ reqs'[r].kind # "login" => last' = Resp("login", 401)]_vars

\* a login with the new password has just succeeded after a change of the
\* password and a change of the e-mail address
C20_Witness ==
  /\ last = Resp("login", 200)
  /\ users["u1"].password = Hash(Plain("p2"))
  /\ users["u1"].email = "e2"

\* C21: no two user records share an e-mail address (a username names one
\* record); a record that exists is changed by a profile update of its own
\* user only, never by a registration; and a registration or profile update
\* that ends in an error leaves every record as it was. This holds when two
\* registrations, or a registration and a profile update, both passed the
\* find-existing check before either saved.
C21_UniqueUsernameAndEmail ==
  [][/\ \A u, o \in Users :
          (u # o /\ users'[u].reg /\ users'[o].reg) => users'[u].email # users'[o].email
     /\ \A u \in Users :
          (users[u].reg /\ users'[u] # users[u])
            => \E r \in Reqs : reqs[r].kind = "profileUpdate" /\ reqs[r].u = u
                                /\ reqs'[r] = Idle /\ last' = Resp("profileUpdate", 200)
     /\ (\E r \in Reqs : /\ reqs[r].kind \in {"register", "profileUpdate"}
                          /\ reqs'[r] = Idle /\ last'.status >= 400)
          => users' = users]_vars

\* a profile update lost to a registration that took the address after
\* both had passed their checks: two records exist, with different
\* addresses, and the update has just been answered 409
C21_Witness ==
  /\ last = Resp("profileUpdate", 409)
  /\ users["u1"].reg /\ users["u2"].reg
  /\ users["u1"].email # users["u2"].email

\* C27: a logout that passed authenticateToken deletes the store entry of
\* the identity in the access token, whatever the refreshToken of the body
\* is (a string that is no token, a token of the same user, a token of
\* another user): the body is looked at for presence only. Without it the
\* answer is 400 and the store is unchanged; a logout that fails
\* authentication changes nothing; the entries of all other users, the
\* owner of the presented refresh token among them, stay as they are.
C27_LogoutFrame ==
  [][(last'.op = "logout" /\ now' = now /\ reqs' = reqs)
       => \A bearer \in Bearers \cup {NoTok},
             body \in {store[u].tok : u \in Users} \cup {Garbage, NoTok},
             up \in BOOLEAN :
            Logout(bearer, body, up)
              => LET a == AuthenticateToken(bearer)
                 IN /\ ~a.ok => (last'.status = 401 /\ store' = store)
                    /\ (a.ok /\ body = NoTok)
                         => (last' = Resp("logout", 400) /\ store' = store)
                    /\ (a.ok /\ body # NoTok /\ up)
                         => /\ last' = Resp("logout", 200)
                            /\ store'[a.id] = NoEntry
                            /\ \A o \in Users \ {a.id} : store'[o] = store[o]]_vars

\* u1 has just logged out: its entry is gone, and the entry of u2, whose
\* refresh token a client of u1 could have put into the body, is still
\* there and still accepted
C27_Witness ==
  /\ last = Resp("logout", 200)
  /\ store["u1"] = NoEntry
  /\ store["u2"] # NoEntry
  /\ Accepts(store["u2"].tok, store, now)

\* C28: a registration that ends in an error leaves the Credential Store
\* as it was when the request began: the step that ends it changes no
\* record, and when the error comes after the save (the issuance of the
\* refresh token failed) the record the request saved is not there
\* afterwards, so that the same registration can be tried again.
C28_FailedRegistrationLeavesNoRecord ==
  [][\A r \in Reqs :
       (reqs[r].kind = "register" /\ reqs'[r] = Idle /\ last'.status >= 400)
         => /\ users' = users
            /\ reqs[r].pc = "issue" => ~users'[reqs[r].u].reg]_vars

\* C22: outside development mode a response with status 500 carries in no
\* field of its body (error, error_en, message, message_en, stack) the
\* message or the stack trace of the error that caused it; a stack trace
\* is sent in development mode only.
C22_No500Leak ==
  /\ (res.status = 500 /\ cfg.nodeEnv # "development")
       => \A text \in {res.body.error, res.body.error_en, res.body.message,
                       res.body.message_en, res.body.stack} :
            text \notin {RawMessage, StackTrace}
  /\ res.body.stack # None => cfg.nodeEnv = "development"

\* C23: in production mode POST /api/sync runs syncAllData only when the
\* x-api-key header equals the configured API key. Without the header (or
\* with an empty one) the answer is 401, with another value 403, and in
\* both cases syncAllData is not invoked and neither the collections nor
\* the cache change.
C23_SyncNeedsApiKey ==
  [][cfg.nodeEnv = "production"
       => /\ res'.op = "sync"
               => /\ res'.key \in {None, ""}
                       => /\ res'.status = 401 /\ ~res'.result.invoked
                          /\ catalog' = catalog /\ cache' = cache
                  /\ (res'.key \notin {None, ""} /\ res'.key # cfg.apiKey)
                       => /\ res'.status = 403 /\ ~res'.result.invoked
                          /\ catalog' = catalog /\ cache' = cache
                  /\ res'.result.invoked => res'.key = cfg.apiKey
                  /\ cache' # cache => res'.result.invoked
          /\ catalog' # catalog => (res'.op = "sync" /\ res'.result.invoked)]_vars

\* in production a request with the key of the deployment has just
\* synchronised: the job collection holds a record
C23_Witness ==
  /\ cfg.nodeEnv = "production"
  /\ res.op = "sync" /\ res.status = 200
  /\ res.result.invoked /\ res.result.success
  /\ catalog["job"] # {}

\* C24: the GET routes with a fixed path (/types, /locations, /companies,
\* /apply of the job router; /fields, /locations, /apply of the university
\* router) are served by their own handler, never by the handler of '/:id'.
C24_FixedPathsOwnHandler ==
  (res.op = "get" /\ res.path \in {Route("types"), Route("locations"), Route("companies"),
                                   Route("apply"), Route("fields")})
    => (res.handler = res.path /\ res.handler # IdRoute)

\* C25: when syncAllData has come to its end with the cache connected, no
\* body cached before it is left to be served: the cache holds no entry of
\* a university or job GET route.
C25_CacheClearedAfterSync ==
  [][(res'.op = "sync" /\ res'.result.invoked /\ res'.status = 200)
       => \A k \in CacheKeys : cache'[k] = NoBody]_vars

\* C26: a response served from the cache has the status and the body of
\* the response that filled the entry: no error body is stored, and none is
\* sent from the cache with status 200.
C26_CacheKeepsStatus ==
  /\ \A k \in CacheKeys : cache[k].error = None
  /\ (res.fromCache /\ res.status = 200) => res.body.error = None

\* C29: once the database connection is established the cron
\* synchronisation is eventually scheduled, whether the initial syncAllData
\* reports success, reports success = false, or throws.
C29_CronEventuallyScheduled == (boot.pc = "syncing") ~> boot.scheduled

====
